---- MODULE Spec2Model ----
(***************************************************************************)
(* OCI metrics FastMCP server (src/fastmcp_server.py): the OCIClientManager *)
(* adapter (structured SDK transport with a command-line fallback) and the  *)
(* five tool handlers built on it.                                          *)
(*                                                                          *)
(* Python values are modelled as follows.  None is the string Null; a dict  *)
(* is a function from its keys, so key presence is DOMAIN membership; a     *)
(* list is a sequence; a str assembled from pieces (an f-string) is the     *)
(* sequence of its pieces; a raised exception is a result record with       *)
(* ok = FALSE carrying str(e).  Every adapter operation returns such a      *)
(* result record together with the log of transport calls it made.          *)
(***************************************************************************)
EXTENDS Integers, Sequences, FiniteSets, TLC

VARIABLES config, compute_client, monitoring_client, network_client,
          environ, pc, inv, ret

vars == <<config, compute_client, monitoring_client, network_client,
          environ, pc, inv, ret>>

(***************************************************************************)
(* Bounds of the model.                                                     *)
(***************************************************************************)
\* longest instance list a transport returns
MaxInstances == 2
\* longest list of VNIC attachments of one instance
MaxVnics == 2
\* longest start_time string
MaxLen == 3

(***************************************************************************)
(* Python basics.                                                           *)
(***************************************************************************)
Null == "<null>"

\* bool(s) of an optional str: None and "" are falsy
Truthy(s) == s # Null /\ s # ""

\* a or b
Or(a, b) == IF Truthy(a) THEN a ELSE b

\* d.get(k, default)
DictGet(d, k, default) == IF k \in DOMAIN d THEN d[k] ELSE default

\* d[k] = v
SetKey(d, k, v) == (k :> v) @@ d

\* the value of an expression computed once: the element of a singleton
Value(S) == CHOOSE v \in S : TRUE

\* an operation's normal return of v, having made the transport calls cs
Ok(v, cs) == [ok |-> TRUE, val |-> v, err |-> "", calls |-> cs]

\* an operation raising Exception(e), having made the transport calls cs
Raise(e, cs) == [ok |-> FALSE, val |-> <<>>, err |-> e, calls |-> cs]

\* one call of an external transport: the structured client's methods, or the
\* command-line process
Call(op, scope, arg, ok) == [op |-> op, scope |-> scope, arg |-> arg, ok |-> ok]

NoScope == "-"

\* datetime.utcnow().isoformat(), the retrieval timestamp
UtcNow == "utcnow"

RECURSIVE SeqsOver(_, _)
\* sequences without repetition over S, of length at most n
SeqsOver(S, n) ==
  IF n = 0 THEN {<<>>}
  ELSE LET shorter == SeqsOver(S, n - 1) IN
       shorter \cup UNION {{Append(s, x) : x \in {y \in S : \A k \in 1..Len(s) : s[k] # y}} :
                            s \in shorter}

(***************************************************************************)
(* The provider: what the external transports can answer.                   *)
(***************************************************************************)
InstanceIds == {"i1", "i2"}
VnicIds == {"v1", "v2", "v3"}
LifecycleStates == {"RUNNING", "STOPPED"}

\* oci.core.models.Instance as the compute service reports it
ProviderInstance(i) ==
  [id |-> i,
   display_name |-> IF i = "i1" THEN "web" ELSE "db",
   shape |-> IF i = "i1" THEN "VM.Standard2.1" ELSE "VM.Standard.E4.Flex",
   lifecycle_state |-> IF i = "i1" THEN "RUNNING" ELSE "STOPPED"]

\* oci.core.models.Vnic as the networking service reports it
ProviderVnic(v) ==
  [id |-> v,
   is_primary |-> v \in {"v1", "v3"},
   private_ip |-> IF v = "v1" THEN "10.0.0.1" ELSE IF v = "v2" THEN "10.0.0.2" ELSE "10.0.0.3",
   public_ip |-> IF v = "v1" THEN "203.0.113.1" ELSE Null,
   hostname_label |-> IF v = "v1" THEN "web" ELSE IF v = "v2" THEN "web-b" ELSE Null,
   mac_address |-> IF v = "v1" THEN "02:00:00:00:00:01" ELSE IF v = "v2" THEN "02:00:00:00:00:02" ELSE "02:00:00:00:00:03"]

InstanceLists == SeqsOver(InstanceIds, MaxInstances)

\* outcome of compute_client.list_instances / get_instance: it raises, or it
\* answers with data
SdkFails == [ok |-> FALSE, data |-> <<>>]
SdkListOutcomes == {SdkFails} \cup {[ok |-> TRUE, data |-> d] : d \in InstanceLists}

\* one element of the "data" array printed by `oci compute instance list`:
\* all the fields, or the id alone
CliItem(i, full) ==
  IF full
  THEN ("id" :> i) @@ ("display-name" :> ProviderInstance(i).display_name)
       @@ ("shape" :> ProviderInstance(i).shape)
       @@ ("lifecycle-state" :> ProviderInstance(i).lifecycle_state)
  ELSE ("id" :> i)

CliDataLists ==
  UNION {{[k \in 1..Len(d) |-> CliItem(d[k], f[k])] : f \in [1..Len(d) -> BOOLEAN]} :
         d \in InstanceLists}

\* outcome of subprocess.run: it raises ("oserror"), it exits non-zero, it
\* prints nothing, it prints what is no JSON ("invalid"), it prints a JSON
\* object without "data" ("nodata"), or a JSON object with a "data" array
CliNotRun == [kind |-> "oserror", data |-> <<>>]
CliOutcomes ==
  {[kind |-> k, data |-> <<>>] : k \in {"oserror", "nonzero", "empty", "invalid", "nodata"}}
  \cup {[kind |-> "json", data |-> d] : d \in CliDataLists}

\* outcome of the two network calls for one instance:
\* compute_client.list_vnic_attachments raises or answers with attachments,
\* and for each attachment network_client.get_vnic answers (found) or raises
AttachFails == [ok |-> FALSE, items |-> <<>>]
AttachOutcomes ==
  {AttachFails}
  \cup UNION {{[ok |-> TRUE,
                items |-> [k \in 1..Len(vs) |-> [vnicId |-> vs[k], found |-> f[k]]]] :
               f \in [1..Len(vs) -> BOOLEAN]} :
              vs \in SeqsOver(VnicIds, MaxVnics)}

(***************************************************************************)
(* OCIClientManager.                                                        *)
(***************************************************************************)
\* self.config = None, as a dict without keys
NoConfig == [loaded |-> FALSE, region |-> Null, tenancy |-> Null]

\* what from_file() can load.  The code reads the tenancy with config.get and
\* provides for its absence (lines 77, 90-93, 725-729), so the key may be
\* there or not
Configs == {[loaded |-> TRUE, region |-> "eu-frankfurt-1", tenancy |-> t] :
            t \in {"ocid1.tenancy", Null}}

\* values of the OCI_COMPARTMENT_ID environment variable
Environs == {Null, "", "ocid1.compartment.env"}

\* the adapter object
Manager == [config |-> config, compute_client |-> compute_client,
            monitoring_client |-> monitoring_client, network_client |-> network_client]

\* bool(self.config)
HasConfig(m) == m.config.loaded

Idle == [handler |-> "none", args |-> <<>>, world |-> <<>>, outcome |-> "none",
         envelope |-> <<>>, calls |-> <<>>]
NoRet == [op |-> "none", args |-> <<>>, result |-> <<>>]

\* OCIClientManager.__init__ up to the call of _initialize_clients
Init ==
  /\ config = NoConfig
  /\ compute_client = Null
  /\ monitoring_client = Null
  /\ network_client = Null
  /\ environ \in Environs
  /\ pc = "from_file"
  /\ inv = Idle
  /\ ret = NoRet

\* self.config = from_file()
LoadConfig ==
  /\ pc = "from_file"
  /\ \E c \in Configs : config' = c
  /\ pc' = "validate_config"
  /\ UNCHANGED <<compute_client, monitoring_client, network_client, environ, inv, ret>>

\* validate_config(self.config)
ValidateConfig ==
  /\ pc = "validate_config"
  /\ pc' = "ComputeClient"
  /\ UNCHANGED <<config, compute_client, monitoring_client, network_client, environ, inv, ret>>

\* self.compute_client = ComputeClient(self.config)
MakeComputeClient ==
  /\ pc = "ComputeClient"
  /\ compute_client' = "ComputeClient"
  /\ pc' = "MonitoringClient"
  /\ UNCHANGED <<config, monitoring_client, network_client, environ, inv, ret>>

\* a startup that goes on without creating the monitoring client
MakeMonitoringClient_skipped ==
  /\ pc = "MonitoringClient"
  /\ pc' = "VirtualNetworkClient"
  /\ UNCHANGED <<config, compute_client, monitoring_client, network_client, environ, inv, ret>>

\* self.monitoring_client = MonitoringClient(self.config)
MakeMonitoringClient ==
  /\ pc = "MonitoringClient"
  /\ monitoring_client' = "MonitoringClient"
  /\ pc' = "VirtualNetworkClient"
  /\ UNCHANGED <<config, compute_client, network_client, environ, inv, ret>>

\* from oci.core import VirtualNetworkClient;
\* self.network_client = VirtualNetworkClient(self.config); the log lines
MakeNetworkClient ==
  /\ pc = "VirtualNetworkClient"
  /\ network_client' = "VirtualNetworkClient"
  /\ pc' = "ready"
  /\ UNCHANGED <<config, compute_client, monitoring_client, environ, inv, ret>>

\* an except block that resets the configuration and leaves the clients
\* created so far
InitializeFails_partial ==
  /\ pc \in {"from_file", "validate_config", "ComputeClient", "MonitoringClient",
             "VirtualNetworkClient"}
  /\ config' = NoConfig
  /\ pc' = "ready"
  /\ UNCHANGED <<compute_client, monitoring_client, network_client, environ, inv, ret>>

\* except Exception: any of the steps above raises
InitializeFails ==
  /\ pc \in {"from_file", "validate_config", "ComputeClient", "MonitoringClient",
             "VirtualNetworkClient"}
  /\ config' = NoConfig
  /\ compute_client' = Null
  /\ monitoring_client' = Null
  /\ network_client' = Null
  /\ pc' = "ready"
  /\ UNCHANGED <<environ, inv, ret>>

\* get_compartment_id
GetCompartmentId(m, env) ==
  IF ~Truthy(env) /\ HasConfig(m) THEN m.config.tenancy ELSE env

\* the Instance dict built from an SDK model object
SdkInstance(m, i) ==
  [id |-> ProviderInstance(i).id,
   displayName |-> ProviderInstance(i).display_name,
   shape |-> ProviderInstance(i).shape,
   lifecycleState |-> ProviderInstance(i).lifecycle_state,
   region |-> m.config.region]

\* list_instances_sdk; o is the outcome of compute_client.list_instances
ListInstancesSdk(m, compartment_id, lifecycle_state, o) ==
  IF m.compute_client = Null THEN Raise("OCI SDK not available", <<>>)
  ELSE LET call == Call("compute.list_instances", compartment_id, lifecycle_state, o.ok) IN
       IF ~o.ok THEN Raise("ServiceError", <<call>>)
       ELSE IF o.data # <<>> /\ ~HasConfig(m)
            THEN Raise("'NoneType' object has no attribute 'get'", <<call>>)
            ELSE Ok([k \in 1..Len(o.data) |-> SdkInstance(m, o.data[k])], <<call>>)

\* the Instance dict with RUNNING for the state the command line left out
CliInstance_running(d) ==
  [id |-> DictGet(d, "id", ""),
   displayName |-> DictGet(d, "display-name", "Unknown"),
   shape |-> DictGet(d, "shape", "Unknown"),
   lifecycleState |-> DictGet(d, "lifecycle-state", "RUNNING"),
   region |-> "unknown"]

\* the Instance dict built from one element of the command-line JSON
CliInstance(d) ==
  [id |-> DictGet(d, "id", ""),
   displayName |-> DictGet(d, "display-name", "Unknown"),
   shape |-> DictGet(d, "shape", "Unknown"),
   lifecycleState |-> DictGet(d, "lifecycle-state", "Unknown"),
   region |-> "unknown"]

\* list_instances_cli_fallback; o is the outcome of subprocess.run
ListInstancesCliFallback(compartment_id, lifecycle_state, o) ==
  LET call == Call("cli.instance_list", compartment_id, lifecycle_state,
                   o.kind \in {"empty", "nodata", "json"}) IN
  CASE o.kind = "oserror" -> Raise("FileNotFoundError", <<call>>)
    [] o.kind = "nonzero" -> Raise("CLI command failed", <<call>>)
    [] o.kind = "empty" -> Ok(<<>>, <<call>>)
    [] o.kind = "invalid" -> Raise("JSONDecodeError", <<call>>)
    [] o.kind = "nodata" -> Ok(<<>>, <<call>>)
    [] OTHER -> Ok([k \in 1..Len(o.data) |-> CliInstance(o.data[k])], <<call>>)

\* get_instance_details_sdk; ok is the outcome of compute_client.get_instance
GetInstanceDetailsSdk(m, instance_id, ok) ==
  IF m.compute_client = Null THEN Raise("OCI SDK not available", <<>>)
  ELSE LET call == Call("compute.get_instance", NoScope, instance_id, ok) IN
       IF ~ok THEN Raise("ServiceError", <<call>>)
       ELSE IF ~HasConfig(m)
            THEN Raise("'NoneType' object has no attribute 'get'", <<call>>)
            ELSE Ok(SdkInstance(m, instance_id), <<call>>)

\* get_vnic_attachments_sdk without its except block: a failure of
\* compute_client.list_vnic_attachments goes to the caller
GetVnicAttachmentsSdk_propagate(m, instance_id, compartment_id, a) ==
  IF m.compute_client = Null THEN Raise("OCI SDK not available", <<>>)
  ELSE LET call == Call("compute.list_vnic_attachments", compartment_id, instance_id, a.ok) IN
       IF ~a.ok THEN Raise("ServiceError", <<call>>)
       ELSE Ok([k \in 1..Len(a.items) |->
                  [instanceId |-> instance_id, vnicId |-> a.items[k].vnicId,
                   nicIndex |-> k - 1]], <<call>>)

\* get_vnic_attachments_sdk; a is the outcome of
\* compute_client.list_vnic_attachments
GetVnicAttachmentsSdk(m, instance_id, compartment_id, a) ==
  IF m.compute_client = Null THEN Raise("OCI SDK not available", <<>>)
  ELSE LET call == Call("compute.list_vnic_attachments", compartment_id, instance_id, a.ok) IN
       IF ~a.ok THEN Ok(<<>>, <<call>>)
       ELSE Ok([k \in 1..Len(a.items) |->
                  [instanceId |-> instance_id, vnicId |-> a.items[k].vnicId,
                   nicIndex |-> k - 1]], <<call>>)

\* the None that get_vnic_details_sdk returns, among dicts
NoneDict == [isNone |-> TRUE]
IsNone(d) == "isNone" \in DOMAIN d

\* get_vnic_details_sdk; found is the outcome of network_client.get_vnic
GetVnicDetailsSdk(m, vnic_id, found) ==
  IF m.network_client = Null THEN Raise("OCI Network client not available", <<>>)
  ELSE LET call == Call("network.get_vnic", NoScope, vnic_id, found) IN
       IF ~found THEN Ok(NoneDict, <<call>>)
       ELSE Ok([id |-> ProviderVnic(vnic_id).id,
                privateIp |-> ProviderVnic(vnic_id).private_ip,
                publicIp |-> ProviderVnic(vnic_id).public_ip,
                hostname |-> ProviderVnic(vnic_id).hostname_label,
                isPrimary |-> ProviderVnic(vnic_id).is_primary,
                macAddress |-> ProviderVnic(vnic_id).mac_address], <<call>>)

RECURSIVE Flatten(_)
\* the concatenation of a sequence of call logs
Flatten(logs) == IF Len(logs) = 0 THEN <<>> ELSE Head(logs) \o Flatten(Tail(logs))

\* the loop over vnic_attachments, lines 247-258 (and again 563-575):
\* network_info, or the exception of the first lookup that raises; cs are the
\* calls made before the loop
CollectNetworkInfo(m, vnic_attachments, items, cs) ==
  Value({
    LET n == Len(vnic_attachments)
        raising == {k \in 1..n : ~d[k].ok}
        stop == IF raising = {} THEN n + 1 ELSE CHOOSE k \in raising : \A j \in raising : k <= j
        calls == cs \o Flatten([k \in 1..(IF stop > n THEN n ELSE stop) |-> d[k].calls])
        kept == SelectSeq([k \in 1..n |-> k], LAMBDA k : ~IsNone(d[k].val))
    IN IF stop <= n THEN Raise(d[stop].err, calls)
       ELSE Ok([j \in 1..Len(kept) |->
                  [isPrimary |-> d[kept[j]].val.isPrimary,
                   privateIp |-> d[kept[j]].val.privateIp,
                   publicIp |-> d[kept[j]].val.publicIp,
                   hostname |-> d[kept[j]].val.hostname,
                   macAddress |-> d[kept[j]].val.macAddress,
                   nicIndex |-> vnic_attachments[kept[j]].nicIndex]], calls)
    : d \in {<<>> \o [k \in 1..Len(vnic_attachments) |->
                        GetVnicDetailsSdk(m, vnic_attachments[k].vnicId, items[k].found)]}})

\* the first entry of network_info taken for the primary one, whatever its flag
PrimaryVnic_first(network_info) == IF Len(network_info) > 0 THEN 1 ELSE 0

\* next((ni for ni in network_info if ni['isPrimary']), None): the index of
\* the first primary entry, 0 for None
PrimaryVnic(network_info) ==
  IF \E k \in 1..Len(network_info) : network_info[k].isPrimary
  THEN CHOOSE k \in 1..Len(network_info) :
         /\ network_info[k].isPrimary
         /\ \A j \in 1..(k - 1) : ~network_info[j].isPrimary
  ELSE 0

\* the four assignments of the except block, lines 275-278 (and 478-481)
NoNetwork(instance) ==
  SetKey(SetKey(SetKey(SetKey(instance, "networkInfo", <<>>),
                       "primaryPrivateIp", Null), "primaryPublicIp", Null),
         "hostname", Null)

\* one turn of the loop of list_instances_with_network_sdk, lines 242-278;
\* a is the outcome of the network calls for this instance
EnrichInstance(m, instance, compartment_id, a) ==
  Value({
    IF ~att.ok THEN [instance |-> NoNetwork(instance), calls |-> att.calls]
    ELSE Value({
      IF ~n.ok THEN [instance |-> NoNetwork(instance), calls |-> n.calls]
      ELSE Value({
        [instance |->
           SetKey(SetKey(SetKey(SetKey(instance, "networkInfo", n.val),
             "primaryPrivateIp", IF p # 0 THEN n.val[p].privateIp ELSE Null),
             "primaryPublicIp", IF p # 0 THEN n.val[p].publicIp ELSE Null),
             "hostname", IF p # 0 THEN n.val[p].hostname ELSE Null),
         calls |-> n.calls]
        : p \in {PrimaryVnic(n.val)}})
      : n \in {CollectNetworkInfo(m, att.val, a.items, att.calls)}})
    : att \in {GetVnicAttachmentsSdk(m, instance.id, compartment_id, a)}})

\* the for loop without the try of lines 242 and 273: an exception of the
\* enrichment ends the listing
EnrichAll_abort(m, instances, compartment_id, en, cs) ==
  Value({
    LET n == Len(instances)
        raising == {k \in 1..n :
                      \E att \in {GetVnicAttachmentsSdk(m, instances[k].id, compartment_id,
                                                         en[instances[k].id])} :
                        \/ ~att.ok
                        \/ ~CollectNetworkInfo(m, att.val, en[instances[k].id].items,
                                               att.calls).ok}
    IN IF raising # {} THEN Raise("enrichment failed", cs \o Flatten([k \in 1..n |-> e[k].calls]))
       ELSE Ok([k \in 1..n |-> e[k].instance], cs \o Flatten([k \in 1..n |-> e[k].calls]))
    : e \in {<<>> \o [k \in 1..Len(instances) |->
                        EnrichInstance(m, instances[k], compartment_id, en[instances[k].id])]}})

\* the for loop of list_instances_with_network_sdk, lines 241-280, after the
\* calls cs: every instance enriched in turn
EnrichAll(m, instances, compartment_id, en, cs) ==
  Value({
    LET n == Len(instances)
    IN Ok([k \in 1..n |-> e[k].instance], cs \o Flatten([k \in 1..n |-> e[k].calls]))
    : e \in {<<>> \o [k \in 1..Len(instances) |->
                        EnrichInstance(m, instances[k], compartment_id, en[instances[k].id])]}})

\* list_instances_with_network_sdk; sdk is the outcome of the listing, en[i]
\* the outcome of the network calls for instance i
ListInstancesWithNetworkSdk(m, compartment_id, lifecycle_state, sdk, en) ==
  Value({
    IF ~s.ok THEN s
    ELSE EnrichAll(m, s.val, compartment_id, en, s.calls)
    : s \in {ListInstancesSdk(m, compartment_id, lifecycle_state, sdk)}})

\* query_metrics_sdk, line 295: the MQL text, piece by piece; the filter
\* block is there only for non-empty dimensions
MqlQuery(metric_name, dimensions) ==
  <<metric_name>>
  \o (IF DOMAIN dimensions = {} THEN <<>>
      ELSE <<"{", [k \in DOMAIN dimensions |-> <<k, "=", dimensions[k]>>], "}">>)
  \o <<"[1m].mean()">>

\* outcome of monitoring_client.summarize_metrics_data: it raises, or it
\* answers with the datapoints of the metric streams
MetricOutcomes ==
  {[ok |-> FALSE, data |-> <<>>],
   [ok |-> TRUE, data |-> <<>>],
   [ok |-> TRUE, data |-> <<[timestamp |-> "t1", value |-> 42]>>]}

\* query_metrics_sdk; q is the outcome of summarize_metrics_data
QueryMetricsSdk(m, namespace, metric_name, start_time, end_time, compartment_id, dimensions, q) ==
  IF m.monitoring_client = Null THEN Raise("OCI Monitoring client not available", <<>>)
  ELSE LET call == Call("monitoring.summarize_metrics_data", compartment_id,
                        [namespace |-> namespace,
                         query |-> MqlQuery(metric_name, dimensions),
                         start_time |-> start_time, end_time |-> end_time,
                         resolution |-> "PT1M"], q.ok) IN
       IF ~q.ok THEN Raise("ServiceError", <<call>>)
       ELSE Ok([namespace |-> namespace,
                metricName |-> metric_name,
                dimensions |-> dimensions,
                aggregatedDatapoints |->
                  [k \in 1..Len(q.data) |-> [timestamp |-> q.data[k].timestamp,
                                             value |-> q.data[k].value,
                                             dimensions |-> dimensions]],
                retrievedAt |-> UtcNow], <<call>>)

(***************************************************************************)
(* Time expressions.  A str is the sequence of its characters; a datetime   *)
(* is the count of hours since the epoch with its tzinfo.                    *)
(***************************************************************************)
Digits == {"1", "2", "4"}
Chars == Digits \cup {"-", "h", "d", "T", "Z"}

RECURSIVE StrsOfLen(_)
StrsOfLen(n) ==
  IF n = 0 THEN {<<>>} ELSE {Append(s, c) : s \in StrsOfLen(n - 1), c \in Chars}

\* the start_time arguments
StartTimes == UNION {StrsOfLen(n) : n \in 0..MaxLen}

\* end_time = None
NoTime == <<Null>>

\* the end_time arguments: omitted, empty, absolute without and with the Z
\* suffix, relative, and what is no time at all
EndTimes == {NoTime, <<>>, <<"T", "2">>, <<"T", "1", "Z">>, <<"1", "h">>, <<"Z">>}

\* datetime.utcnow(), in hours
Now == 100
\* timedelta(days=1), in hours
HoursPerDay == 24
\* datetime.min and datetime.max, in hours: the datetimes there are
DatetimeMin == 0
DatetimeMax == 1000

\* datetime - timedelta: an OverflowError ("date value out of range") when the
\* result is no datetime
Minus(t, delta) ==
  IF t - delta >= DatetimeMin /\ t - delta <= DatetimeMax
  THEN [ok |-> TRUE, val |-> [t |-> t - delta, tz |-> "naive"], err |-> ""]
  ELSE [ok |-> FALSE, val |-> [t |-> 0, tz |-> "naive"], err |-> "OverflowError"]

DigitValue(c) == IF c = "1" THEN 1 ELSE IF c = "2" THEN 2 ELSE 4

RECURSIVE DigitsValue(_)
\* the number a non-empty string of digits denotes
DigitsValue(s) ==
  IF Len(s) = 0 THEN 0
  ELSE 10 * DigitsValue(SubSeq(s, 1, Len(s) - 1)) + DigitValue(s[Len(s)])

AllDigits(s) == Len(s) > 0 /\ \A k \in 1..Len(s) : s[k] \in Digits

\* int(s): a ValueError (ok = FALSE), or the number
ParseInt(s) ==
  IF AllDigits(s) THEN [ok |-> TRUE, val |-> DigitsValue(s)]
  ELSE IF Len(s) > 1 /\ s[1] = "-" /\ AllDigits(Tail(s))
       THEN [ok |-> TRUE, val |-> 0 - DigitsValue(Tail(s))]
       ELSE [ok |-> FALSE, val |-> 0]

\* s.replace('Z', '+00:00'); the character "+" stands for the offset +00:00
ReplaceZ(s) == [k \in 1..Len(s) |-> IF s[k] = "Z" THEN "+" ELSE s[k]]

\* datetime.fromisoformat(s): a ValueError, or the datetime.  An absolute
\* timestamp is written T<digits>, with or without the offset
FromIsoFormat(s) ==
  LET body == IF Len(s) > 0 /\ s[Len(s)] = "+" THEN SubSeq(s, 1, Len(s) - 1) ELSE s IN
  IF Len(body) > 1 /\ body[1] = "T" /\ AllDigits(Tail(body))
  THEN [ok |-> TRUE, val |-> [t |-> DigitsValue(Tail(body)),
                             tz |-> IF body = s THEN "naive" ELSE "+00:00"]]
  ELSE [ok |-> FALSE, val |-> [t |-> 0, tz |-> "naive"]]

\* s.endswith(c)
EndsWith(s, c) == Len(s) > 0 /\ s[Len(s)] = c

\* s[:-1]
ButLast(s) == SubSeq(s, 1, Len(s) - 1)

\* start_dt with the days of "<n>d" taken for hours
ParseStartTime_days_as_hours(start_time) ==
  LET n == ParseInt(ButLast(start_time))
      a == FromIsoFormat(ReplaceZ(start_time))
  IN IF EndsWith(start_time, "h") \/ EndsWith(start_time, "d")
     THEN IF n.ok THEN Minus(Now, n.val)
          ELSE [ok |-> FALSE, val |-> a.val, err |-> "ValueError"]
     ELSE [ok |-> a.ok, val |-> a.val, err |-> IF a.ok THEN "" ELSE "ValueError"]

\* query_compute_metrics, lines 632-639: start_dt, or the ValueError of int()
\* and fromisoformat(), or the OverflowError of the subtraction
ParseStartTime(start_time) ==
  LET n == ParseInt(ButLast(start_time))
      a == FromIsoFormat(ReplaceZ(start_time))
  IN IF EndsWith(start_time, "h")
     THEN IF n.ok THEN Minus(Now, n.val)
          ELSE [ok |-> FALSE, val |-> a.val, err |-> "ValueError"]
     ELSE IF EndsWith(start_time, "d")
          THEN IF n.ok THEN Minus(Now, HoursPerDay * n.val)
               ELSE [ok |-> FALSE, val |-> a.val, err |-> "ValueError"]
          ELSE [ok |-> a.ok, val |-> a.val, err |-> IF a.ok THEN "" ELSE "ValueError"]

\* end_dt parsed the way start_dt is, relative forms included
ParseEndTime_relative(end_time) ==
  IF end_time = NoTime \/ end_time = <<>>
  THEN [ok |-> TRUE, val |-> [t |-> Now, tz |-> "naive"]]
  ELSE ParseStartTime(end_time)

\* query_compute_metrics, line 641: end_dt, or the ValueError
ParseEndTime(end_time) ==
  IF end_time = NoTime \/ end_time = <<>>
  THEN [ok |-> TRUE, val |-> [t |-> Now, tz |-> "naive"]]
  ELSE FromIsoFormat(ReplaceZ(end_time))

\* dt.isoformat()
IsoFormat(dt) == <<dt.t, dt.tz>>

(***************************************************************************)
(* Tool handlers.                                                           *)
(***************************************************************************)
ScopeArgs == {Null, "ocid1.compartment.arg"}

\* what a finished invocation leaves: it returned an envelope, or it raised
Returned(env, cs) == [outcome |-> "returned", envelope |-> env, calls |-> cs]
Raised(e, cs) == [outcome |-> "raised", envelope |-> [exception |-> e], calls |-> cs]

\* a finished invocation: the handler, its arguments, what the provider
\* answered during it (world), and what it left
Invocation(h, args, world, r) ==
  [handler |-> h, args |-> args, world |-> world, outcome |-> r.outcome,
   envelope |-> r.envelope, calls |-> r.calls]

\* list_compute_instances without the inner except of lines 407-409: a failure
\* of the structured listing is final
list_compute_instances_try_nofallback(m, env, compartment_id, lifecycle_state, sdk, cli) ==
  LET target_compartment == Or(compartment_id, GetCompartmentId(m, env)) IN
  IF ~Truthy(target_compartment) THEN Raise("Compartment ID is required", <<>>)
  ELSE
    LET r == ListInstancesSdk(m, target_compartment, lifecycle_state, sdk)
    IN IF ~r.ok THEN r
       ELSE Ok([summary |-> [found |-> Len(r.val),
                             retrieved_using |-> "OCI Python SDK",
                             compartment |-> target_compartment,
                             retrieved_at |-> UtcNow],
                instance_count |-> Len(r.val),
                instances |-> r.val,
                method |-> "SDK",
                success |-> TRUE], r.calls)

\* list_compute_instances, lines 399-438: the body of the try block
list_compute_instances_try(m, env, compartment_id, lifecycle_state, sdk, cli) ==
  LET target_compartment == Or(compartment_id, GetCompartmentId(m, env)) IN
  IF ~Truthy(target_compartment) THEN Raise("Compartment ID is required", <<>>)
  ELSE
    LET s == ListInstancesSdk(m, target_compartment, lifecycle_state, sdk)
        c == ListInstancesCliFallback(target_compartment, lifecycle_state, cli)
        r == IF s.ok THEN s ELSE [c EXCEPT !.calls = s.calls \o c.calls]
    IN IF ~r.ok THEN r
       ELSE Ok([summary |-> [found |-> Len(r.val),
                             retrieved_using |-> IF m.compute_client # Null
                                                 THEN "OCI Python SDK" ELSE "OCI CLI",
                             compartment |-> target_compartment,
                             retrieved_at |-> UtcNow],
                instance_count |-> Len(r.val),
                instances |-> r.val,
                method |-> IF m.compute_client # Null THEN "SDK" ELSE "CLI",
                success |-> TRUE], r.calls)

\* list_compute_instances as written, lines 440-450: its except block
list_compute_instances(m, env, compartment_id, lifecycle_state, sdk, cli) ==
  LET r == list_compute_instances_try(m, env, compartment_id, lifecycle_state, sdk, cli) IN
  IF r.ok THEN Returned(r.val, r.calls)
  ELSE Returned([summary |-> <<"Failed to list compute instances: ", r.err>>,
                 instance_count |-> 0,
                 instances |-> <<>>,
                 method |-> "Error",
                 success |-> FALSE,
                 error |-> <<r.err>>], r.calls)

\* the tool call list_compute_instances(compartment_id, lifecycle_state)
ListComputeInstances ==
  /\ pc = "ready"
  /\ inv = Idle
  /\ \E compartment_id \in ScopeArgs, lifecycle_state \in LifecycleStates :
       \E sdk \in IF compute_client # Null THEN SdkListOutcomes ELSE {SdkFails} :
        \E cli \in IF sdk.ok THEN {CliNotRun} ELSE CliOutcomes :
         \E r \in {list_compute_instances(Manager, environ, compartment_id,
                                                  lifecycle_state, sdk, cli)} :
           inv' = Invocation("list_compute_instances",
                           [compartment_id |-> compartment_id,
                            lifecycle_state |-> lifecycle_state],
                           [sdk |-> sdk, cli |-> cli], r)
  /\ UNCHANGED <<config, compute_client, monitoring_client, network_client, environ, pc, ret>>

\* list_instances_with_network without the loop of lines 477-481: the
\* command-line instances go out as listed
list_instances_with_network_try_unnulled(m, env, compartment_id, lifecycle_state, sdk, en, cli) ==
  Value({
    IF ~Truthy(target_compartment) THEN Raise("Compartment ID is required", <<>>)
    ELSE Value({
      IF ~r.ok THEN r
      ELSE LET method == IF m.compute_client # Null /\ m.network_client # Null
                         THEN "SDK" ELSE "CLI (limited)"
           IN Ok([summary |-> [found |-> Len(r.val),
                               network_info_included |-> IF m.network_client # Null
                                                         THEN "Yes" ELSE "No (requires SDK)",
                               retrieved_using |-> method,
                               retrieved_at |-> UtcNow],
                  instance_count |-> Len(r.val),
                  instances |-> r.val,
                  includes_network_info |-> m.network_client # Null,
                  method |-> method,
                  success |-> TRUE], r.calls)
      : r \in {IF m.compute_client # Null /\ m.network_client # Null
               THEN ListInstancesWithNetworkSdk(m, target_compartment, lifecycle_state,
                                                sdk, en)
               ELSE Value({IF ~c.ok THEN c
                           ELSE Ok(c.val, c.calls)
                           : c \in {ListInstancesCliFallback(target_compartment,
                                                             lifecycle_state, cli)}})}})
    : target_compartment \in {Or(compartment_id, GetCompartmentId(m, env))}})

\* list_instances_with_network with the fallback of list_compute_instances: a
\* failure of the enriched listing goes on to the command line
list_instances_with_network_try_clifallback(m, env, compartment_id, lifecycle_state, sdk, en, cli) ==
  Value({
    IF ~Truthy(target_compartment) THEN Raise("Compartment ID is required", <<>>)
    ELSE Value({
      IF ~r.ok THEN r
      ELSE LET method == IF m.compute_client # Null /\ m.network_client # Null
                         THEN "SDK" ELSE "CLI (limited)"
           IN Ok([summary |-> [found |-> Len(r.val),
                               network_info_included |-> IF m.network_client # Null
                                                         THEN "Yes" ELSE "No (requires SDK)",
                               retrieved_using |-> method,
                               retrieved_at |-> UtcNow],
                  instance_count |-> Len(r.val),
                  instances |-> r.val,
                  includes_network_info |-> m.network_client # Null,
                  method |-> method,
                  success |-> TRUE], r.calls)
      : r \in {IF m.compute_client # Null /\ m.network_client # Null
               THEN Value({IF s.ok THEN s
                           ELSE Value({[c EXCEPT !.calls = s.calls \o c.calls]
                                       : c \in {ListInstancesCliFallback(
                                                  target_compartment, lifecycle_state, cli)}})
                           : s \in {ListInstancesWithNetworkSdk(m, target_compartment,
                                                                lifecycle_state, sdk, en)}})
               ELSE Value({IF ~c.ok THEN c
                           ELSE Ok([k \in 1..Len(c.val) |-> NoNetwork(c.val[k])], c.calls)
                           : c \in {ListInstancesCliFallback(target_compartment,
                                                             lifecycle_state, cli)}})}})
    : target_compartment \in {Or(compartment_id, GetCompartmentId(m, env))}})

\* list_instances_with_network, lines 464-520: the body of the try block
list_instances_with_network_try(m, env, compartment_id, lifecycle_state, sdk, en, cli) ==
  Value({
    IF ~Truthy(target_compartment) THEN Raise("Compartment ID is required", <<>>)
    ELSE Value({
      IF ~r.ok THEN r
      ELSE LET method == IF m.compute_client # Null /\ m.network_client # Null
                         THEN "SDK" ELSE "CLI (limited)"
           IN Ok([summary |-> [found |-> Len(r.val),
                               network_info_included |-> IF m.network_client # Null
                                                         THEN "Yes" ELSE "No (requires SDK)",
                               retrieved_using |-> method,
                               retrieved_at |-> UtcNow],
                  instance_count |-> Len(r.val),
                  instances |-> r.val,
                  includes_network_info |-> m.network_client # Null,
                  method |-> method,
                  success |-> TRUE], r.calls)
      : r \in {IF m.compute_client # Null /\ m.network_client # Null
               THEN ListInstancesWithNetworkSdk(m, target_compartment, lifecycle_state,
                                                sdk, en)
               ELSE Value({IF ~c.ok THEN c
                           ELSE Ok([k \in 1..Len(c.val) |-> NoNetwork(c.val[k])], c.calls)
                           : c \in {ListInstancesCliFallback(target_compartment,
                                                             lifecycle_state, cli)}})}})
    : target_compartment \in {Or(compartment_id, GetCompartmentId(m, env))}})

\* list_instances_with_network as written, lines 522-533: its except block
list_instances_with_network(m, env, compartment_id, lifecycle_state, sdk, en, cli) ==
  Value({
    IF r.ok THEN Returned(r.val, r.calls)
    ELSE Returned([summary |-> <<"Failed to list instances with network info: ", r.err>>,
                   instance_count |-> 0,
                   instances |-> <<>>,
                   includes_network_info |-> FALSE,
                   method |-> "Error",
                   success |-> FALSE,
                   error |-> <<r.err>>], r.calls)
    : r \in {list_instances_with_network_try(m, env, compartment_id, lifecycle_state,
                                             sdk, en, cli)}})

\* the elements of a sequence
Range(s) == {s[k] : k \in 1..Len(s)}

\* the tool call list_instances_with_network(compartment_id, lifecycle_state)
ListInstancesWithNetwork ==
  /\ pc = "ready"
  /\ inv = Idle
  /\ \E compartment_id \in ScopeArgs, lifecycle_state \in LifecycleStates :
       \E sdk \in IF compute_client # Null /\ network_client # Null
                  THEN SdkListOutcomes ELSE {SdkFails} :
         \E en \in [Range(sdk.data) -> AttachOutcomes] :
           \E cli \in IF compute_client # Null /\ network_client # Null
                      THEN {CliNotRun} ELSE CliOutcomes :
             \E r \in {list_instances_with_network(Manager, environ, compartment_id,
                                                           lifecycle_state, sdk, en, cli)} :
               inv' = Invocation("list_instances_with_network",
                               [compartment_id |-> compartment_id,
                                lifecycle_state |-> lifecycle_state],
                               [sdk |-> sdk, en |-> en, cli |-> cli], r)
  /\ UNCHANGED <<config, compute_client, monitoring_client, network_client, environ, pc, ret>>

\* get_instance_details, lines 560-588: the network part; a is the outcome of
\* the network calls
instance_network(m, instance, instance_id, target_compartment, a) ==
  LET att == GetVnicAttachmentsSdk(m, instance_id, target_compartment, a)
      n == CollectNetworkInfo(m, att.val, a.items, att.calls)
      p == PrimaryVnic(n.val)
      with_info == SetKey(instance, "networkInfo", n.val)
  IN IF ~att.ok THEN [instance |-> SetKey(instance, "networkInfo", <<>>), calls |-> att.calls]
     ELSE IF ~n.ok THEN [instance |-> SetKey(instance, "networkInfo", <<>>), calls |-> n.calls]
     ELSE IF p # 0
          THEN [instance |-> SetKey(SetKey(SetKey(with_info,
                               "primaryPrivateIp", n.val[p].privateIp),
                               "primaryPublicIp", n.val[p].publicIp),
                               "hostname", n.val[p].hostname),
                calls |-> n.calls]
          ELSE [instance |-> with_info, calls |-> n.calls]

\* get_instance_details, lines 548-600: the body of the try block
get_instance_details_try(m, env, instance_id, compartment_id, include_network, ok, a) ==
  LET target_compartment == Or(compartment_id, GetCompartmentId(m, env)) IN
  IF m.compute_client = Null THEN Raise("Instance details require OCI SDK", <<>>)
  ELSE
    LET d == GetInstanceDetailsSdk(m, instance_id, ok)
        e == IF include_network /\ m.network_client # Null
             THEN instance_network(m, d.val, instance_id, target_compartment, a)
             ELSE [instance |-> d.val, calls |-> <<>>]
    IN IF ~d.ok THEN d
       ELSE Ok([instance |-> e.instance,
                includesNetworkInfo |-> include_network /\ m.network_client # Null,
                method |-> "SDK",
                loganCompatible |-> TRUE,
                retrievedAt |-> UtcNow,
                service |-> "OCI Core Services",
                operationType |-> "get_instance_details"], d.calls \o e.calls)

\* get_instance_details without its except block
get_instance_details_nocatch(m, env, instance_id, compartment_id, include_network, ok, a) ==
  LET r == get_instance_details_try(m, env, instance_id, compartment_id, include_network,
                                    ok, a) IN
  IF r.ok THEN Returned(r.val, r.calls) ELSE Raised(r.err, r.calls)

\* get_instance_details as written, lines 602-608: its except block
get_instance_details(m, env, instance_id, compartment_id, include_network, ok, a) ==
  LET r == get_instance_details_try(m, env, instance_id, compartment_id, include_network,
                                    ok, a) IN
  IF r.ok THEN Returned(r.val, r.calls)
  ELSE Returned([error |-> <<"Failed to get instance details: ", r.err>>,
                 success |-> FALSE,
                 retrievedAt |-> UtcNow], r.calls)

\* the tool call get_instance_details(instance_id, compartment_id, include_network)
GetInstanceDetails ==
  /\ pc = "ready"
  /\ inv = Idle
  /\ \E instance_id \in InstanceIds, compartment_id \in ScopeArgs, include_network \in BOOLEAN :
       \E ok \in BOOLEAN :
        \E a \in IF ok /\ include_network /\ network_client # Null
                 THEN AttachOutcomes ELSE {AttachFails} :
         \E r \in {get_instance_details(Manager, environ, instance_id, compartment_id,
                                                include_network, ok, a)} :
           inv' = Invocation("get_instance_details",
                           [instance_id |-> instance_id, compartment_id |-> compartment_id,
                            include_network |-> include_network],
                           [ok |-> ok, a |-> a], r)
  /\ UNCHANGED <<config, compute_client, monitoring_client, network_client, environ, pc, ret>>

\* query_compute_metrics, lines 626-675: the body of the try block
query_compute_metrics_try(m, env, instance_id, metric_name, start_time, end_time, compartment_id, q) ==
  LET target_compartment == Or(compartment_id, GetCompartmentId(m, env))
      start_dt == ParseStartTime(start_time)
      end_dt == ParseEndTime(end_time)
  IN
  IF ~Truthy(target_compartment) THEN Raise("Compartment ID is required", <<>>)
  ELSE IF ~start_dt.ok THEN Raise(start_dt.err, <<>>)
  ELSE IF ~end_dt.ok THEN Raise("ValueError", <<>>)
  ELSE IF m.monitoring_client = Null THEN Raise("Metrics querying requires OCI SDK", <<>>)
  ELSE
    LET r == QueryMetricsSdk(m, "oci_computeagent", metric_name, start_dt.val, end_dt.val,
                             target_compartment, [k \in {"resourceId"} |-> instance_id], q)
    IN IF ~r.ok THEN r
       ELSE Ok([metrics |-> r.val,
                query |-> [instanceId |-> instance_id,
                           metricName |-> metric_name,
                           namespace |-> "oci_computeagent",
                           startTime |-> IsoFormat(start_dt.val),
                           endTime |-> IsoFormat(end_dt.val),
                           compartmentId |-> target_compartment],
                method |-> "SDK",
                loganCompatible |-> TRUE,
                retrievedAt |-> UtcNow,
                service |-> "OCI Monitoring",
                operationType |-> "query_compute_metrics"], r.calls)

\* query_compute_metrics with an except block that leaves out retrievedAt
query_compute_metrics_nostamp(m, env, instance_id, metric_name, start_time, end_time, compartment_id, q) ==
  LET r == query_compute_metrics_try(m, env, instance_id, metric_name, start_time,
                                     end_time, compartment_id, q) IN
  IF r.ok THEN Returned(r.val, r.calls)
  ELSE Returned([error |-> <<"Failed to query compute metrics: ", r.err>>,
                 success |-> FALSE], r.calls)

\* query_compute_metrics as written, lines 677-683: its except block
query_compute_metrics(m, env, instance_id, metric_name, start_time, end_time, compartment_id, q) ==
  LET r == query_compute_metrics_try(m, env, instance_id, metric_name, start_time,
                                     end_time, compartment_id, q) IN
  IF r.ok THEN Returned(r.val, r.calls)
  ELSE Returned([error |-> <<"Failed to query compute metrics: ", r.err>>,
                 success |-> FALSE,
                 retrievedAt |-> UtcNow], r.calls)

MetricNames == {"CpuUtilization"}

\* the tool call query_compute_metrics(instance_id, metric_name, start_time,
\* end_time, compartment_id)
QueryComputeMetrics ==
  /\ pc = "ready"
  /\ inv = Idle
  /\ \E instance_id \in {"i1"}, metric_name \in MetricNames, start_time \in StartTimes,
        end_time \in EndTimes, compartment_id \in ScopeArgs :
       \E q \in IF ParseStartTime(start_time).ok /\ ParseEndTime(end_time).ok
                THEN MetricOutcomes ELSE {[ok |-> FALSE, data |-> <<>>]} :
         \E r \in {query_compute_metrics(Manager, environ, instance_id, metric_name,
                                                 start_time, end_time, compartment_id, q)} :
           inv' = Invocation("query_compute_metrics",
                           [instance_id |-> instance_id, metric_name |-> metric_name,
                            start_time |-> start_time, end_time |-> end_time,
                            compartment_id |-> compartment_id],
                           [q |-> q], r)
  /\ UNCHANGED <<config, compute_client, monitoring_client, network_client, environ, pc, ret>>

\* test_oci_connection, lines 715-739: the compute sub-check
compute_service_test(m, env, sdk) ==
  LET compartment_id == GetCompartmentId(m, env)
      r == ListInstancesSdk(m, compartment_id, "RUNNING", sdk)
  IN IF m.compute_client = Null
     THEN [test |-> [status |-> "failed", message |-> <<"Compute client not available">>],
           calls |-> <<>>]
     ELSE IF ~Truthy(compartment_id)
          THEN [test |-> [status |-> "warning",
                          message |-> <<"Compute client available but no compartment ID configured">>],
                calls |-> <<>>]
          ELSE IF r.ok
               THEN [test |-> [status |-> "success",
                               message |-> <<"Compute service accessible">>,
                               instance_count |-> Len(r.val)],
                     calls |-> r.calls]
               ELSE [test |-> [status |-> "failed",
                               message |-> <<"Compute service test failed: ", r.err>>],
                     calls |-> r.calls]

\* overall_status without the comparison of line 759: any failed sub-check
\* makes it failed
OverallStatus_strict(tests) ==
  LET failed_tests == {k \in DOMAIN tests : tests[k].status = "failed"} IN
  IF failed_tests = {} THEN "success" ELSE "failed"

\* test_oci_connection, lines 753-760: overall_status from the sub-checks
OverallStatus(tests) ==
  LET failed_tests == {k \in DOMAIN tests : tests[k].status = "failed"} IN
  IF failed_tests = {} THEN "success"
  ELSE IF Cardinality(failed_tests) < Cardinality(DOMAIN tests) THEN "partial" ELSE "failed"

\* test_oci_connection, lines 693-762; its except block (lines 764-771) has
\* nothing to catch: no statement of the try block raises
test_oci_connection(m, env, sdk) ==
  LET c == compute_service_test(m, env, sdk)
      tests ==
        [sdk_config |->
           IF HasConfig(m)
           THEN [status |-> "success", message |-> <<"OCI SDK configuration loaded">>,
                 region |-> m.config.region]
           ELSE [status |-> "failed", message |-> <<"OCI SDK configuration not available">>],
         compute_service |-> c.test,
         monitoring_service |->
           IF m.monitoring_client # Null
           THEN [status |-> "success", message |-> <<"Monitoring client available">>]
           ELSE [status |-> "failed", message |-> <<"Monitoring client not available">>]]
      failed_tests == {k \in DOMAIN tests : tests[k].status = "failed"}
  IN Returned([timestamp |-> UtcNow,
               service |-> "OCI Connection Test",
               tests |-> tests,
               overall_status |-> OverallStatus(tests),
               message |-> IF failed_tests = {} THEN <<"All OCI services accessible">>
                           ELSE <<"tests failed: ", Cardinality(failed_tests), " out of ",
                                  Cardinality(DOMAIN tests)>>], c.calls)

\* a connection test that drops the configuration and the clients when its
\* live listing fails
TestOciConnection_reset ==
  /\ pc = "ready"
  /\ inv = Idle
  /\ \E sdk \in IF compute_client # Null THEN SdkListOutcomes ELSE {SdkFails} :
       /\ \E r \in {test_oci_connection(Manager, environ, sdk)} :
            inv' = Invocation("test_oci_connection", <<>>, [sdk |-> sdk], r)
       /\ IF sdk.ok
          THEN UNCHANGED <<config, compute_client, monitoring_client, network_client>>
          ELSE /\ config' = NoConfig
               /\ compute_client' = Null
               /\ monitoring_client' = Null
               /\ network_client' = Null
  /\ UNCHANGED <<environ, pc, ret>>

\* the tool call test_oci_connection()
TestOciConnection ==
  /\ pc = "ready"
  /\ inv = Idle
  /\ \E sdk \in IF compute_client # Null THEN SdkListOutcomes ELSE {SdkFails} :
       \E r \in {test_oci_connection(Manager, environ, sdk)} :
         inv' = Invocation("test_oci_connection", <<>>, [sdk |-> sdk], r)
  /\ UNCHANGED <<config, compute_client, monitoring_client, network_client, environ, pc, ret>>

\* the envelope has gone back to the caller; nothing of the invocation is kept
Respond ==
  /\ inv # Idle
  /\ inv' = Idle
  /\ UNCHANGED <<config, compute_client, monitoring_client, network_client, environ, pc, ret>>

Next ==
  \/ LoadConfig
  \/ ValidateConfig
  \/ MakeComputeClient
  \/ MakeMonitoringClient
  \/ MakeNetworkClient
  \/ InitializeFails
  \/ ListComputeInstances
  \/ ListInstancesWithNetwork
  \/ GetInstanceDetails
  \/ QueryComputeMetrics
  \/ TestOciConnection
  \/ Respond

Spec == Init /\ [][Next]_vars

(***************************************************************************)
(* The adapter on its own: OCIClientManager's operations called directly,   *)
(* on an adapter object with any combination of its four attributes (each   *)
(* operation tests the one handle it needs, lines 97, 137, 177, 208, 285).  *)
(***************************************************************************)
InitAdapter ==
  /\ config \in {NoConfig} \cup Configs
  /\ compute_client \in {Null, "ComputeClient"}
  /\ monitoring_client \in {Null, "MonitoringClient"}
  /\ network_client \in {Null, "VirtualNetworkClient"}
  /\ environ \in Environs
  /\ pc = "adapter"
  /\ inv = Idle
  /\ ret = NoRet

AdapterFrame == UNCHANGED <<config, compute_client, monitoring_client, network_client,
                            environ, pc, inv>>

AdapterScope == "ocid1.compartment.arg"

CallGetCompartmentId ==
  /\ pc = "adapter" /\ ret = NoRet
  /\ ret' = [op |-> "get_compartment_id", args |-> <<>>,
             result |-> Ok(GetCompartmentId(Manager, environ), <<>>)]
  /\ AdapterFrame

CallListInstancesSdk ==
  /\ pc = "adapter" /\ ret = NoRet
  /\ \E lifecycle_state \in LifecycleStates, sdk \in SdkListOutcomes :
       ret' = [op |-> "list_instances_sdk",
               args |-> [lifecycle_state |-> lifecycle_state, sdk |-> sdk],
               result |-> ListInstancesSdk(Manager, AdapterScope, lifecycle_state, sdk)]
  /\ AdapterFrame

CallGetInstanceDetailsSdk ==
  /\ pc = "adapter" /\ ret = NoRet
  /\ \E instance_id \in InstanceIds, ok \in BOOLEAN :
       ret' = [op |-> "get_instance_details_sdk",
               args |-> [instance_id |-> instance_id, ok |-> ok],
               result |-> GetInstanceDetailsSdk(Manager, instance_id, ok)]
  /\ AdapterFrame

CallGetVnicAttachmentsSdk ==
  /\ pc = "adapter" /\ ret = NoRet
  /\ \E instance_id \in InstanceIds, a \in AttachOutcomes :
       ret' = [op |-> "get_vnic_attachments_sdk",
               args |-> [instance_id |-> instance_id, a |-> a],
               result |-> GetVnicAttachmentsSdk(Manager, instance_id, AdapterScope, a)]
  /\ AdapterFrame

CallGetVnicDetailsSdk ==
  /\ pc = "adapter" /\ ret = NoRet
  /\ \E vnic_id \in VnicIds, found \in BOOLEAN :
       ret' = [op |-> "get_vnic_details_sdk",
               args |-> [vnic_id |-> vnic_id, found |-> found],
               result |-> GetVnicDetailsSdk(Manager, vnic_id, found)]
  /\ AdapterFrame

CallListInstancesWithNetworkSdk ==
  /\ pc = "adapter" /\ ret = NoRet
  /\ \E lifecycle_state \in LifecycleStates :
       \E sdk \in IF compute_client # Null THEN SdkListOutcomes ELSE {SdkFails} :
         \E en \in [Range(sdk.data) -> AttachOutcomes] :
           ret' = [op |-> "list_instances_with_network_sdk",
                   args |-> [lifecycle_state |-> lifecycle_state, sdk |-> sdk, en |-> en],
                   result |-> ListInstancesWithNetworkSdk(Manager, AdapterScope,
                                                          lifecycle_state, sdk, en)]
  /\ AdapterFrame

CallQueryMetricsSdk ==
  /\ pc = "adapter" /\ ret = NoRet
  /\ \E dimensions \in {<<>>, [k \in {"resourceId"} |-> "i1"]}, q \in MetricOutcomes :
       ret' = [op |-> "query_metrics_sdk",
               args |-> [dimensions |-> dimensions, q |-> q],
               result |-> QueryMetricsSdk(Manager, "oci_computeagent", "CpuUtilization",
                                          [t |-> Now - 1, tz |-> "naive"],
                                          [t |-> Now, tz |-> "naive"],
                                          AdapterScope, dimensions, q)]
  /\ AdapterFrame

CallListInstancesCliFallback ==
  /\ pc = "adapter" /\ ret = NoRet
  /\ \E lifecycle_state \in LifecycleStates, cli \in CliOutcomes :
       ret' = [op |-> "list_instances_cli_fallback",
               args |-> [lifecycle_state |-> lifecycle_state, cli |-> cli],
               result |-> ListInstancesCliFallback(AdapterScope, lifecycle_state, cli)]
  /\ AdapterFrame

\* the caller has the result
ReturnToCaller ==
  /\ ret # NoRet
  /\ ret' = NoRet
  /\ AdapterFrame

NextAdapter ==
  \/ CallGetCompartmentId
  \/ CallListInstancesSdk
  \/ CallGetInstanceDetailsSdk
  \/ CallGetVnicAttachmentsSdk
  \/ CallGetVnicDetailsSdk
  \/ CallListInstancesWithNetworkSdk
  \/ CallQueryMetricsSdk
  \/ CallListInstancesCliFallback
  \/ ReturnToCaller

SpecAdapter == InitAdapter /\ [][NextAdapter]_vars

(***************************************************************************)
(* Properties.                                                              *)
(***************************************************************************)
Handlers == {"list_compute_instances", "list_instances_with_network",
             "get_instance_details", "query_compute_metrics", "test_oci_connection"}

\* the scope the finished invocation resolved
ResolvedScope == Or(inv.args.compartment_id, GetCompartmentId(Manager, environ))

\* the positions in the call log of the calls of one transport operation
CallsOf(op) == {k \in 1..Len(inv.calls) : inv.calls[k].op = op}

\* an envelope that reports failure
IsFailure(e) ==
  \/ "success" \in DOMAIN e /\ ~e.success
  \/ "overall_status" \in DOMAIN e /\ e.overall_status = "failed"

HasErrorString(e) == "error" \in DOMAIN e \/ "message" \in DOMAIN e
HasTimestamp(e) == "retrievedAt" \in DOMAIN e \/ "timestamp" \in DOMAIN e

\* str(e) as the failure envelope carries it: the last piece of its error text
ErrorDetail(e) == e.error[Len(e.error)]

\* C1: whatever the adapter state, the inputs, the resolved scope and the
\* outcome of each transport call, an invocation of any of the five handlers
\* ends by returning an envelope: no exception leaves the handler.
C1_NoFailureEscapes ==
  inv.handler # "none" =>
    /\ inv.handler \in Handlers
    /\ inv.outcome = "returned"
    /\ "exception" \notin DOMAIN inv.envelope

\* a handler whose transport call failed has returned a failure envelope
C1_Witness ==
  /\ inv.handler = "get_instance_details"
  /\ \E k \in CallsOf("compute.get_instance") : ~inv.calls[k].ok
  /\ inv.outcome = "returned"
  /\ IsFailure(inv.envelope)

\* C2: list_compute_instances with a resolved scope.  Whenever the structured
\* listing did not produce a list (no client, or the call failed), the
\* command-line listing is the next and last transport call, with the same
\* scope and lifecycle state.  Without a structured client a successful
\* command-line listing gives success = true and method = "CLI"; a failed
\* command-line listing gives method = "Error", instance_count = 0,
\* instances = [] and success = false.
C2_CliFallback ==
  (inv.handler = "list_compute_instances" /\ Truthy(ResolvedScope)) =>
    LET e == inv.envelope
        cli == CallsOf("cli.instance_list")
    IN /\ (\A k \in CallsOf("compute.list_instances") : ~inv.calls[k].ok) =>
            /\ cli = {Len(inv.calls)}
            /\ inv.calls[Len(inv.calls)].scope = ResolvedScope
            /\ inv.calls[Len(inv.calls)].arg = inv.args.lifecycle_state
       /\ (compute_client = Null /\ \E k \in cli : inv.calls[k].ok) =>
            e.success /\ e.method = "CLI"
       /\ (\E k \in cli : ~inv.calls[k].ok) =>
            /\ e.method = "Error"
            /\ e.instance_count = 0
            /\ e.instances = <<>>
            /\ ~e.success

\* degraded adapter, the command-line listing answered with instances
C2_Witness ==
  /\ inv.handler = "list_compute_instances"
  /\ compute_client = Null
  /\ inv.envelope.success
  /\ inv.envelope.method = "CLI"
  /\ inv.envelope.instance_count > 0

\* C3: in a success envelope of list_compute_instances the method tag names
\* the transport that produced the list: "SDK" only if the structured listing
\* returned it, "CLI" whenever the command-line fallback did.
C3_MethodNamesTransport ==
  (inv.handler = "list_compute_instances" /\ inv.envelope.success) =>
    LET last == inv.calls[Len(inv.calls)] IN
    /\ inv.envelope.method = "SDK" => last.op = "compute.list_instances" /\ last.ok
    /\ last.op = "cli.instance_list" => inv.envelope.method = "CLI"

\* C4 as claimed: every failure envelope of the five handlers has an error or
\* message string, the failure flag and a retrieval timestamp.
C4_FailureEnvelopeComplete ==
  (inv.handler # "none" /\ IsFailure(inv.envelope)) =>
    HasErrorString(inv.envelope) /\ HasTimestamp(inv.envelope)

\* C4 as amended: every failure envelope has an error or message string and
\* the failure flag; it has a retrieval timestamp exactly when it comes from
\* get_instance_details, query_compute_metrics or test_oci_connection (the
\* two listing handlers put none into theirs).
C4_FailureEnvelopeAmended ==
  (inv.handler # "none" /\ IsFailure(inv.envelope)) =>
    /\ HasErrorString(inv.envelope)
    /\ HasTimestamp(inv.envelope) <=>
         inv.handler \in {"get_instance_details", "query_compute_metrics",
                          "test_oci_connection"}

\* a listing handler has failed, and a timestamped failure exists as well
C4_Witness ==
  /\ inv.handler = "list_instances_with_network"
  /\ IsFailure(inv.envelope)
  /\ ~HasTimestamp(inv.envelope)

\* C5: a scope-resolving handler called without a scope, with no environment
\* override and no loaded configuration, returns the required-input failure
\* envelope and calls no transport.
C5_ScopeRequired ==
  (/\ inv.handler \in {"list_compute_instances", "list_instances_with_network",
                       "get_instance_details", "query_compute_metrics"}
   /\ ~Truthy(inv.args.compartment_id)
   /\ ~Truthy(environ)
   /\ ~HasConfig(Manager)) =>
    /\ inv.outcome = "returned"
    /\ IsFailure(inv.envelope)
    /\ ErrorDetail(inv.envelope) = "Compartment ID is required"
    /\ inv.calls = <<>>

\* the interfaces the provider has attached to an instance, in order, and
\* those of them whose lookup answered
Attached(a) == [j \in 1..Len(a.items) |-> ProviderVnic(a.items[j].vnicId)]
IsFound(item) == item.found
Retrieved(a) == Attached([items |-> SelectSeq(a.items, IsFound)])
Primaries(vnics) == {j \in 1..Len(vnics) : vnics[j].is_primary}

NetworkKeys == {"networkInfo", "primaryPrivateIp", "primaryPublicIp", "hostname"}

\* the three convenience fields of an instance are all null
NoPrimary(instance) ==
  /\ instance.primaryPrivateIp = Null
  /\ instance.primaryPublicIp = Null
  /\ instance.hostname = Null

\* the three convenience fields of an instance are those of the interface v
PrimaryIs(instance, v) ==
  /\ instance.primaryPrivateIp = v.private_ip
  /\ instance.primaryPublicIp = v.public_ip
  /\ instance.hostname = v.hostname_label

\* the enrichment of one instance raises: one of its two adapter calls does
EnrichmentRaises(m, instance_id, a) ==
  \/ ~GetVnicAttachmentsSdk(m, instance_id, AdapterScope, a).ok
  \/ \E j \in 1..Len(a.items) :
       ~GetVnicDetailsSdk(m, a.items[j].vnicId, a.items[j].found).ok

\* C6: list_instances_with_network_sdk returns whenever the listing did, with
\* exactly the listed instances in the listed order, whatever the enrichment
\* calls do; an instance whose enrichment raised has networkInfo = [] and the
\* three convenience fields null, and every other instance carries the
\* interfaces retrieved for it.
C6_BatchNeverAborted ==
  ret.op = "list_instances_with_network_sdk" =>
    LET listed == ListInstancesSdk(Manager, AdapterScope, ret.args.lifecycle_state,
                                   ret.args.sdk)
        out == ret.result.val
    IN /\ ret.result.ok = listed.ok
       /\ listed.ok =>
            /\ Len(out) = Len(listed.val)
            /\ \A k \in 1..Len(out) :
                 LET a == ret.args.en[listed.val[k].id] IN
                 /\ \A f \in DOMAIN listed.val[k] : out[k][f] = listed.val[k][f]
                 /\ NetworkKeys \subseteq DOMAIN out[k]
                 /\ IF EnrichmentRaises(Manager, listed.val[k].id, a)
                    THEN out[k].networkInfo = <<>> /\ NoPrimary(out[k])
                    ELSE /\ Len(out[k].networkInfo) = Len(Retrieved(a))
                         /\ \A j \in 1..Len(Retrieved(a)) :
                              out[k].networkInfo[j].privateIp = Retrieved(a)[j].private_ip

\* two instances listed, the enrichment of the first raised, the second came
\* through without
C6_Witness ==
  /\ ret.op = "list_instances_with_network_sdk"
  /\ ret.result.ok
  /\ Len(ret.result.val) = 2
  /\ EnrichmentRaises(Manager, ret.result.val[1].id, ret.args.en[ret.result.val[1].id])
  /\ ~EnrichmentRaises(Manager, ret.result.val[2].id, ret.args.en[ret.result.val[2].id])
  /\ ret.result.val[1].networkInfo = <<>>

\* the instances of a success envelope of the enriched listing
EnrichedListing ==
  /\ inv.handler = "list_instances_with_network"
  /\ inv.envelope.success
  /\ inv.envelope.method = "SDK"

\* C7 as claimed: an instance whose attachments contain exactly one primary
\* interface has that interface's private IP, public IP and hostname; one
\* whose attachments contain no primary interface has all three null;
\* whatever the per-interface lookups do.
C7_PrimaryOfAttachments ==
  EnrichedListing =>
    \A k \in 1..Len(inv.envelope.instances) :
      LET instance == inv.envelope.instances[k]
          a == inv.world.en[instance.id]
          p == Primaries(Attached(a))
      IN /\ (a.ok /\ Cardinality(p) = 1) =>
              PrimaryIs(instance, Attached(a)[CHOOSE j \in p : TRUE])
         /\ (a.ok /\ p = {}) => NoPrimary(instance)

\* C7 as amended: an instance whose retrieved interfaces (the attachments
\* whose lookup answered, its networkInfo) contain exactly one primary
\* interface has that interface's private IP, public IP and hostname; one
\* whose retrieved interfaces contain no primary interface has all three
\* null.
C7_PrimaryOfRetrieved ==
  EnrichedListing =>
    \A k \in 1..Len(inv.envelope.instances) :
      LET instance == inv.envelope.instances[k]
          a == inv.world.en[instance.id]
          p == Primaries(Retrieved(a))
      IN /\ Cardinality(p) = 1 => PrimaryIs(instance, Retrieved(a)[CHOOSE j \in p : TRUE])
         /\ p = {} => NoPrimary(instance)

\* an instance with two retrieved interfaces, the second of them the primary
C7_Witness ==
  /\ EnrichedListing
  /\ \E k \in 1..Len(inv.envelope.instances) :
       LET instance == inv.envelope.instances[k]
           a == inv.world.en[instance.id]
       IN /\ Len(Retrieved(a)) = 2
          /\ Primaries(Retrieved(a)) = {2}
          /\ PrimaryIs(instance, Retrieved(a)[2])

\* C8: the instance of a success envelope of get_instance_details, asked for
\* with include_network and with a networking client, has the keys
\* networkInfo, primaryPrivateIp, primaryPublicIp and hostname.
C8_NetworkKeysPresent ==
  (/\ inv.handler = "get_instance_details"
   /\ "instance" \in DOMAIN inv.envelope
   /\ inv.args.include_network
   /\ network_client # Null) =>
    NetworkKeys \subseteq DOMAIN inv.envelope.instance

\* overall_status as the number of failed sub-checks decides it
StatusByFailures(failed, total) ==
  IF failed = 0 THEN "success" ELSE IF failed = total THEN "failed" ELSE "partial"

IsIntLiteral(s) ==
  \/ Len(s) > 0 /\ \A k \in 1..Len(s) : s[k] \in Digits
  \/ Len(s) > 1 /\ s[1] = "-" /\ \A k \in 2..Len(s) : s[k] \in Digits
IsAbsoluteTime(s) ==
  \/ Len(s) > 1 /\ s[1] = "T" /\ \A k \in 2..Len(s) : s[k] \in Digits
  \/ Len(s) > 2 /\ s[1] = "T" /\ s[Len(s)] = "Z" /\ \A k \in 2..(Len(s) - 1) : s[k] \in Digits
IsRelativeTime(s) ==
  Len(s) > 1 /\ s[Len(s)] \in {"h", "d"} /\ IsIntLiteral(SubSeq(s, 1, Len(s) - 1))

DigitOf(c) == CHOOSE n \in 0..9 : ToString(n) = c

RECURSIVE Magnitude(_)
\* the number a string of digits writes, read from its first digit
Magnitude(s) ==
  IF Len(s) = 0 THEN 0 ELSE DigitOf(Head(s)) * 10 ^ (Len(s) - 1) + Magnitude(Tail(s))

\* the integer an integer literal writes
LiteralValue(s) == IF Head(s) = "-" THEN 0 - Magnitude(Tail(s)) ELSE Magnitude(s)

\* the hours a relative time expression <n>h or <n>d goes back
HoursBack(s) ==
  IF s[Len(s)] = "h" THEN LiteralValue(SubSeq(s, 1, Len(s) - 1))
  ELSE HoursPerDay * LiteralValue(SubSeq(s, 1, Len(s) - 1))

\* the datetime an absolute timestamp writes, as isoformat() prints it
AbsoluteBoundary(s) ==
  IF s[Len(s)] = "Z" THEN <<Magnitude(SubSeq(s, 2, Len(s) - 1)), "+00:00">>
  ELSE <<Magnitude(Tail(s)), "naive">>

\* a point in time that is a datetime
Representable(t) == t >= DatetimeMin /\ t <= DatetimeMax

\* a metrics query that nothing but its start_time can stop: scope and
\* monitoring client at hand, end_time omitted or absolute, no query that the
\* service failed
StartTimeDecides ==
  /\ inv.handler = "query_compute_metrics"
  /\ Truthy(ResolvedScope)
  /\ monitoring_client # Null
  /\ \A k \in 1..Len(inv.calls) : inv.calls[k].ok
  /\ inv.args.end_time \in {NoTime, <<>>} \/ IsAbsoluteTime(inv.args.end_time)

\* the envelope of a metrics query reports the boundaries it submitted, in one
\* query, and an omitted end_time as now
BoundariesAsSubmitted ==
  (inv.handler = "query_compute_metrics" /\ "query" \in DOMAIN inv.envelope) =>
    /\ Len(inv.calls) = 1
    /\ inv.calls[1].op = "monitoring.summarize_metrics_data"
    /\ IsoFormat(inv.calls[1].arg.start_time) = inv.envelope.query.startTime
    /\ IsoFormat(inv.calls[1].arg.end_time) = inv.envelope.query.endTime
    /\ inv.args.end_time = NoTime => inv.envelope.query.endTime = <<Now, "naive">>

\* C11 as claimed: with a fixed now, start_time <n>h resolves to now minus n
\* hours and <n>d to now minus n days for every integer n, any other
\* start_time resolves as an absolute timestamp, an omitted end_time resolves
\* to now, and the boundaries of the envelope's query block are the ones
\* submitted to the monitoring query.
C11_EveryIntegerResolved ==
  /\ BoundariesAsSubmitted
  /\ (StartTimeDecides /\ IsRelativeTime(inv.args.start_time)) =>
       /\ "query" \in DOMAIN inv.envelope
       /\ inv.envelope.query.startTime = <<Now - HoursBack(inv.args.start_time), "naive">>
  /\ (StartTimeDecides /\ IsAbsoluteTime(inv.args.start_time)) =>
       /\ "query" \in DOMAIN inv.envelope
       /\ inv.envelope.query.startTime = AbsoluteBoundary(inv.args.start_time)

\* C11 as amended: with a fixed now, start_time <n>h resolves to now minus n
\* hours and <n>d to now minus n days for every integer n for which that point
\* in time is a datetime (so 24h and 1d give the same boundary); for the other
\* n the handler returns a failure envelope and submits no query.  Any other
\* start_time resolves as an absolute timestamp, an omitted end_time resolves
\* to now, and the boundaries of the envelope's query block are the ones
\* submitted to the monitoring query.
C11_RepresentableResolved ==
  /\ BoundariesAsSubmitted
  /\ (StartTimeDecides /\ IsRelativeTime(inv.args.start_time)) =>
       IF Representable(Now - HoursBack(inv.args.start_time))
       THEN /\ "query" \in DOMAIN inv.envelope
            /\ inv.envelope.query.startTime =
                 <<Now - HoursBack(inv.args.start_time), "naive">>
       ELSE /\ IsFailure(inv.envelope)
            /\ inv.calls = <<>>
  /\ (StartTimeDecides /\ IsAbsoluteTime(inv.args.start_time)) =>
       /\ "query" \in DOMAIN inv.envelope
       /\ inv.envelope.query.startTime = AbsoluteBoundary(inv.args.start_time)

\* start_time 1d with end_time omitted: the start boundary is the one of 24h,
\* the end boundary is now
C11_Witness ==
  /\ inv.handler = "query_compute_metrics"
  /\ inv.args.start_time = <<"1", "d">>
  /\ inv.args.end_time = NoTime
  /\ "query" \in DOMAIN inv.envelope
  /\ inv.envelope.query.startTime = IsoFormat(ParseStartTime(<<"2", "4", "h">>).val)
  /\ inv.envelope.query.startTime = <<Now - HoursPerDay, "naive">>
  /\ inv.envelope.query.endTime = <<Now, "naive">>

\* C12: list_instances_with_network with a resolved scope goes the enriched
\* structured path (its first transport call is the structured listing, and
\* the command line is not called) if and only if both the compute and the
\* networking client are set; otherwise its one transport call is the
\* command-line listing, and a success envelope then has method
\* "CLI (limited)" and, for every instance, networkInfo = [] and the three
\* convenience fields null.  A success envelope has method "SDK" exactly when
\* the enriched path was taken.
C12_EnrichedIffBothClients ==
  (inv.handler = "list_instances_with_network" /\ Truthy(ResolvedScope)) =>
    LET e == inv.envelope
        both == compute_client # Null /\ network_client # Null
        enriched == /\ Len(inv.calls) > 0
                    /\ inv.calls[1].op = "compute.list_instances"
                    /\ CallsOf("cli.instance_list") = {}
    IN /\ enriched <=> both
       /\ ~both =>
            /\ Len(inv.calls) = 1
            /\ inv.calls[1].op = "cli.instance_list"
            /\ e.success =>
                 /\ e.method = "CLI (limited)"
                 /\ \A k \in 1..Len(e.instances) :
                      /\ NetworkKeys \subseteq DOMAIN e.instances[k]
                      /\ e.instances[k].networkInfo = <<>>
                      /\ NoPrimary(e.instances[k])
       /\ e.success => (e.method = "SDK" <=> enriched)

\* degraded adapter, the command line listed two instances: both go out with
\* the network fields emptied
C12_Witness ==
  /\ inv.handler = "list_instances_with_network"
  /\ compute_client = Null
  /\ inv.envelope.success
  /\ inv.envelope.method = "CLI (limited)"
  /\ Len(inv.envelope.instances) = 2
  /\ inv.envelope.instances[2].networkInfo = <<>>
  /\ NoPrimary(inv.envelope.instances[2])

\* a success envelope of one of the two listing handlers
ListingSucceeded ==
  /\ inv.handler \in {"list_compute_instances", "list_instances_with_network"}
  /\ inv.envelope.success

\* the lifecycle states of the items the answering transport returned, in
\* order: the structured listing if it answered, else the command line, whose
\* items may come without the field
ReportedStates ==
  IF \E k \in CallsOf("compute.list_instances") : inv.calls[k].ok
  THEN [k \in 1..Len(inv.world.sdk.data) |->
          ProviderInstance(inv.world.sdk.data[k]).lifecycle_state]
  ELSE [k \in 1..Len(inv.world.cli.data) |->
          IF "lifecycle-state" \in DOMAIN inv.world.cli.data[k]
          THEN inv.world.cli.data[k]["lifecycle-state"] ELSE "Unknown"]

\* C13 as claimed: for every requested lifecycle-state filter, on both
\* transports and for any data the transport returns, every Instance of a
\* success envelope of list_compute_instances or list_instances_with_network
\* has lifecycleState equal to the requested filter.
C13_StateEqualsFilter ==
  ListingSucceeded =>
    \A k \in 1..Len(inv.envelope.instances) :
      inv.envelope.instances[k].lifecycleState = inv.args.lifecycle_state

\* C13 as amended: the two listing handlers hand the requested filter to the
\* transport and filter nothing themselves: every Instance of a success
\* envelope has the lifecycleState the transport reported for it ("Unknown"
\* for a command-line item without the field), so it equals the requested
\* filter whenever the transport returned only instances in that state.
C13_StateAsReported ==
  ListingSucceeded =>
    /\ \A k \in CallsOf("compute.list_instances") \cup CallsOf("cli.instance_list") :
         inv.calls[k].arg = inv.args.lifecycle_state
    /\ Len(inv.envelope.instances) = Len(ReportedStates)
    /\ \A k \in 1..Len(ReportedStates) :
         inv.envelope.instances[k].lifecycleState = ReportedStates[k]
    /\ (\A k \in 1..Len(ReportedStates) : ReportedStates[k] = inv.args.lifecycle_state) =>
         \A k \in 1..Len(inv.envelope.instances) :
           inv.envelope.instances[k].lifecycleState = inv.args.lifecycle_state

\* the command line answered the filter STOPPED with one stopped instance
C13_Witness ==
  /\ ListingSucceeded
  /\ inv.args.lifecycle_state = "STOPPED"
  /\ CallsOf("cli.instance_list") # {}
  /\ Len(inv.envelope.instances) = 1
  /\ ReportedStates = <<"STOPPED">>
  /\ inv.envelope.instances[1].lifecycleState = "STOPPED"

\* C14: a handler invocation calls the command line at most once, and only
\* list_compute_instances and list_instances_with_network do.
\* list_compute_instances calls it only after its structured listing attempt
\* failed (the adapter has no compute client, or the structured call made just
\* before failed), never after a structured listing that answered.
\* list_instances_with_network calls it only when the compute or the
\* networking client is unset; with both set a failed structured listing
\* gives a failure envelope.  get_instance_details, query_compute_metrics and
\* test_oci_connection never call it: without their structured client they
\* return a failure.
C14_CliOnlyAsFallback ==
  inv.handler # "none" =>
    LET cli == CallsOf("cli.instance_list")
        sdk == CallsOf("compute.list_instances")
    IN /\ Cardinality(cli) <= 1
       /\ cli # {} => inv.handler \in {"list_compute_instances",
                                       "list_instances_with_network"}
       /\ inv.handler = "list_compute_instances" =>
            \A k \in cli :
              /\ \A j \in sdk : j < k /\ ~inv.calls[j].ok
              /\ \/ compute_client = Null /\ sdk = {}
                 \/ k > 1 /\ (k - 1) \in sdk
       /\ inv.handler = "list_instances_with_network" =>
            /\ cli # {} => (compute_client = Null \/ network_client = Null)
            /\ (compute_client # Null /\ network_client # Null
                /\ \E j \in sdk : ~inv.calls[j].ok) =>
                 IsFailure(inv.envelope) /\ cli = {}
       /\ (inv.handler = "get_instance_details" /\ compute_client = Null
           /\ Truthy(ResolvedScope)) => IsFailure(inv.envelope)
       /\ (inv.handler = "query_compute_metrics" /\ monitoring_client = Null) =>
            IsFailure(inv.envelope)
       /\ (inv.handler = "test_oci_connection" /\ compute_client = Null) =>
            inv.envelope.tests.compute_service.status = "failed"

\* list_compute_instances on a configured adapter: the structured listing
\* failed, then the command line was called, once
C14_Witness ==
  /\ inv.handler = "list_compute_instances"
  /\ compute_client # Null
  /\ Len(inv.calls) = 2
  /\ inv.calls[1].op = "compute.list_instances" /\ ~inv.calls[1].ok
  /\ inv.calls[2].op = "cli.instance_list"

\* the adapter with its configuration and all three clients, and without any
AllSet ==
  /\ HasConfig(Manager)
  /\ compute_client # Null /\ monitoring_client # Null /\ network_client # Null
NoneSet ==
  /\ config = NoConfig
  /\ compute_client = Null /\ monitoring_client = Null /\ network_client = Null

\* C15: once startup is over, the adapter has its configuration and all three
\* clients, or none of the four (degraded mode); a startup that fails at any
\* step, with clients already created or not, ends in degraded mode, and the
\* handlers are served from there.
C15_AllOrNothing ==
  /\ pc = "ready" => (AllSet \/ NoneSet)
  /\ inv.handler # "none" => pc = "ready"

\* degraded mode, and a handler has been served in it
C15_Witness ==
  /\ pc = "ready"
  /\ NoneSet
  /\ inv.handler = "list_compute_instances"
  /\ inv.outcome = "returned"

TransportFailed == \E k \in 1..Len(ret.result.calls) : ~ret.result.calls[k].ok

\* listInstances, getInstanceDetails and queryMetricSeries hand every failure
\* to their caller: the client unset, or the transport call failing
PrimaryOperationsPropagate ==
  /\ ret.op \in {"list_instances_sdk", "get_instance_details_sdk"} =>
       ((compute_client = Null \/ TransportFailed) => ~ret.result.ok)
  /\ ret.op = "query_metrics_sdk" =>
       ((monitoring_client = Null \/ TransportFailed) => ~ret.result.ok)
  /\ ret.op = "list_instances_cli_fallback" => (TransportFailed => ~ret.result.ok)

\* C17 as claimed: listNetworkAttachments and getNetworkInterface never signal
\* an error, whatever makes them fail, the required client being unset
\* included: the one returns an empty sequence, the other null; the primary
\* operations propagate every failure.
C17_BestEffortNeverRaises ==
  /\ PrimaryOperationsPropagate
  /\ ret.op = "get_vnic_attachments_sdk" =>
       /\ ret.result.ok
       /\ (compute_client = Null \/ TransportFailed) => ret.result.val = <<>>
  /\ ret.op = "get_vnic_details_sdk" =>
       /\ ret.result.ok
       /\ (network_client = Null \/ TransportFailed) => IsNone(ret.result.val)

\* C17 as amended: with their client set, listNetworkAttachments and
\* getNetworkInterface signal no error: a failure of the provider call gives
\* an empty sequence, respectively null.  With the required client unset they
\* raise, before any provider call.  The primary operations propagate every
\* failure.
C17_BestEffortWithClient ==
  /\ PrimaryOperationsPropagate
  /\ ret.op = "get_vnic_attachments_sdk" =>
       IF compute_client = Null
       THEN ~ret.result.ok /\ ret.result.calls = <<>>
       ELSE /\ ret.result.ok
            /\ TransportFailed => ret.result.val = <<>>
  /\ ret.op = "get_vnic_details_sdk" =>
       IF network_client = Null
       THEN ~ret.result.ok /\ ret.result.calls = <<>>
       ELSE /\ ret.result.ok
            /\ TransportFailed => IsNone(ret.result.val)

\* the provider call of listNetworkAttachments failed, and the caller has an
\* empty sequence
C17_Witness ==
  /\ ret.op = "get_vnic_attachments_sdk"
  /\ compute_client # Null
  /\ TransportFailed
  /\ ret.result.ok
  /\ ret.result.val = <<>>

\* the live listing of the connection test was made and failed
LiveListingFailed == \E k \in CallsOf("compute.list_instances") : ~inv.calls[k].ok

\* C18: once startup is over the adapter never has a compute client without a
\* monitoring client, and in every connection test the sub-checks sdk_config
\* and monitoring_service have the same status; overall_status is "failed"
\* exactly when startup left no configuration, "partial" exactly when the
\* configuration is loaded and the live compute listing failed, and "success"
\* otherwise.
C18_StatusFollowsStartup ==
  /\ pc = "ready" => ~(compute_client # Null /\ monitoring_client = Null)
  /\ inv.handler = "test_oci_connection" =>
       LET e == inv.envelope IN
       /\ e.tests.sdk_config.status = e.tests.monitoring_service.status
       /\ e.overall_status = "failed" <=> ~HasConfig(Manager)
       /\ e.overall_status = "partial" <=> (HasConfig(Manager) /\ LiveListingFailed)
       /\ e.overall_status = "success" <=> (HasConfig(Manager) /\ ~LiveListingFailed)

\* a connection test in degraded mode: all three sub-checks failed
C18_Witness ==
  /\ inv.handler = "test_oci_connection"
  /\ ~HasConfig(Manager)
  /\ inv.envelope.tests.sdk_config.status = "failed"
  /\ inv.envelope.tests.monitoring_service.status = "failed"
  /\ inv.envelope.overall_status = "failed"

====
